---- MODULE Spec2Model ----
(***************************************************************************)
(* Model of the two dashboards of the repository:                          *)
(*   - the percentage helper calcDefinedPct and the literal tables of the  *)
(*     "Agile Leader Dashboard" (src/unnamed/part_001, src/tw3.js);        *)
(*   - the App / SusanChat state machine of "Susan - Project Insight"      *)
(*     (src/unnamed/part_000).                                             *)
(* JavaScript numbers are IEEE-754 binary64 values.  They are modelled as  *)
(* a sign, a 53-bit significand (a sequence of bits, most significant      *)
(* first) and the binary weight of the leading bit, so that the rounding   *)
(* of a decimal literal and of the product by 100 is computed, not assumed.*)
(***************************************************************************)
EXTENDS Integers, Sequences, FiniteSets, TLC

\* ------------------------------------------------------------------------
\* Bounds of the model
\* ------------------------------------------------------------------------
\* ratio literals are num / 10^digits, -MaxNeg <= num <= MaxNum, 1 <= digits <= MaxDigits
MaxNeg == 200
MaxNum == 1200
MaxDigits == 3
\* at most MaxSends user messages are submitted
MaxSends == 2
\* at most MaxCloses delayed onClose callbacks are pending at once
MaxCloses == 2
\* at most MaxFrames animation-frame callbacks are pending at once
MaxFrames == 1

\* ------------------------------------------------------------------------
\* IEEE-754 binary64 arithmetic (the JavaScript Number type)
\* ------------------------------------------------------------------------
\* number of significand bits of a binary64
MantissaBits == 53

RECURSIVE Pow10(_)
Pow10(k) == IF k = 0 THEN 1 ELSE 10 * Pow10(k - 1)

\* binary digits of a natural number, most significant first, no leading zero
RECURSIVE IntBits(_)
IntBits(n) == IF n = 0 THEN <<>> ELSE Append(IntBits(n \div 2), n % 2)

\* value of a bit sequence, most significant first
RECURSIVE BitsToInt(_)
BitsToInt(b) ==
  IF b = <<>> THEN 0
  ELSE 2 * BitsToInt(SubSeq(b, 1, Len(b) - 1)) + b[Len(b)]

\* b + 1 on a bit sequence (the result is one bit longer when b is all ones)
RECURSIVE Increment(_)
Increment(b) ==
  IF b = <<>> THEN <<1>>
  ELSE IF b[Len(b)] = 0 THEN Append(SubSeq(b, 1, Len(b) - 1), 1)
  ELSE Append(Increment(SubSeq(b, 1, Len(b) - 1)), 0)

\* b * k for a small natural k: schoolbook multiplication from the low end;
\* bits i+1..Len(b) of b are done, acc holds their product bits
RECURSIVE MulSmall(_, _, _, _, _)
MulSmall(b, k, i, carry, acc) ==
  IF i = 0 THEN IntBits(carry) \o acc
  ELSE MulSmall(b, k, i - 1, (b[i] * k + carry) \div 2, <<(b[i] * k + carry) % 2>> \o acc)

\* the next n bits of the binary expansion of the fraction rem / den (< 1)
\* appended to acc, with the remainder left after them
RECURSIVE FracBits(_, _, _, _)
FracBits(rem, den, n, acc) ==
  IF n = 0 THEN [bits |-> acc, rem |-> rem]
  ELSE FracBits((2 * rem) % den, den, n - 1, Append(acc, (2 * rem) \div den))

\* number of zero bits before the first one bit in the expansion of rem / den
RECURSIVE LeadingZeros(_, _)
LeadingZeros(rem, den) ==
  IF 2 * rem >= den THEN 0 ELSE 1 + LeadingZeros(2 * rem, den)

\* rem * 2^n mod den
RECURSIVE ShiftRem(_, _, _)
ShiftRem(rem, den, n) ==
  IF n = 0 THEN rem ELSE ShiftRem((2 * rem) % den, den, n - 1)

Zero == [zero |-> TRUE, neg |-> FALSE, mant |-> <<>>, exp |-> 0]

\* round-to-nearest, ties-to-even: bits starts with a one bit and has more than
\* MantissaBits bits; sticky says that non-zero digits follow bits; exp is the
\* binary weight of bits[1]
RoundNearestEven(neg, bits, sticky, exp) ==
  LET keep  == SubSeq(bits, 1, MantissaBits)
      guard == bits[MantissaBits + 1]
      rest  == sticky \/ \E i \in (MantissaBits + 2)..Len(bits) : bits[i] = 1
      up    == guard = 1 /\ (rest \/ keep[MantissaBits] = 1)
      inc   == IF up THEN Increment(keep) ELSE keep
  IN  IF Len(inc) > MantissaBits
      THEN [zero |-> FALSE, neg |-> neg, mant |-> SubSeq(inc, 1, MantissaBits), exp |-> exp + 1]
      ELSE [zero |-> FALSE, neg |-> neg, mant |-> inc, exp |-> exp]

\* the Number denoted by the decimal literal num / den (den > 0)
ToNumber(num, den) ==
  IF num = 0 THEN Zero
  ELSE
    LET a    == IF num < 0 THEN -num ELSE num
        ip   == IntBits(a \div den)
        r0   == a % den
        lz   == IF ip = <<>> THEN LeadingZeros(r0, den) ELSE 0
        r1   == ShiftRem(r0, den, lz)
        need == (MantissaBits + 1) - Len(ip)
        f    == FracBits(r1, den, need, ip)
        exp  == IF ip = <<>> THEN -(lz + 1) ELSE Len(ip) - 1
    IN  RoundNearestEven(num < 0, f.bits, f.rem # 0, exp)

One == ToNumber(1, 1)

\* x >= 1 for a Number x
GeOne(x) == ~x.zero /\ ~x.neg /\ x.exp >= 0

\* the upper clamp left out
MathMin1_NoClamp(x) == x

\* Math.min(1, x)
MathMin1(x) == IF GeOne(x) THEN One ELSE x

\* the lower clamp left out
MathMax0_NoClamp(x) == x

\* Math.max(0, x)
MathMax0(x) == IF x.zero \/ x.neg THEN Zero ELSE x

\* x * 100
Times100(x) ==
  IF x.zero THEN Zero
  ELSE LET p == MulSmall(x.mant, 100, Len(x.mant), 0, <<>>)
       IN  RoundNearestEven(x.neg, p, FALSE, x.exp + (Len(p) - MantissaBits))

\* Math.floor in the place of Math.round (x >= 0 here)
MathRound_Floor(x) ==
  IF x.zero \/ x.exp < 0 THEN 0
  ELSE IF x.neg THEN -(BitsToInt(SubSeq(x.mant, 1, x.exp + 1)) + 1)
  ELSE BitsToInt(SubSeq(x.mant, 1, x.exp + 1))

\* Math.round(x): the nearest integer, ties towards +Infinity
MathRound(x) ==
  IF x.zero \/ x.exp < -1 THEN 0
  ELSE LET ni   == x.exp + 1
           ip   == BitsToInt(SubSeq(x.mant, 1, ni))
           half == IF ni + 1 <= MantissaBits THEN x.mant[ni + 1] ELSE 0
           more == \E i \in (ni + 2)..MantissaBits : x.mant[i] = 1
       IN  IF ~x.neg THEN ip + half
           ELSE IF half = 1 /\ more THEN -(ip + 1) ELSE -ip

\* ------------------------------------------------------------------------
\* Helpers & Data of the Agile dashboard
\* ------------------------------------------------------------------------
calcDefinedPct(ratio) == MathRound(Times100(MathMax0(MathMin1(ratio))))

kpis == [undefinedCount |-> 35, definedRatio |-> [num |-> 67, digits |-> 2],
         plannedPoints |-> 78, nextSprintPoints |-> 24]

teams == <<
  [name |-> "AAA2(Design&Platform)", status |-> "Red", prev |-> "Red", backlog |-> 18],
  [name |-> "DelEng&Support(DesignPlatform)", status |-> "Red", prev |-> "Red", backlog |-> 22],
  [name |-> "OrangeSquad(DesignPlatform)", status |-> "Yellow", prev |-> "Green", backlog |-> 9],
  [name |-> "Solution(Design&Dev)", status |-> "Green", prev |-> "Green", backlog |-> 54],
  [name |-> "SupportTeam(DesignPlatform)", status |-> "Red", prev |-> "Orange", backlog |-> 8],
  [name |-> "SystemTeam(DesignPlatform)", status |-> "Red", prev |-> "Red", backlog |-> 12] >>

statusColor(s) ==
  IF s = "Green" THEN "bg-emerald-500"
  ELSE IF s = "Yellow" THEN "bg-yellow-400" ELSE "bg-rose-500"

\* ------------------------------------------------------------------------
\* Literal tables of "Susan - Project Insight"
\* ------------------------------------------------------------------------
InsightKey == {"recommendation", "risk", "achievement", "ai", "teamPlanning", "healthPerformance"}

null == "null"

\* the title of one key copied to another
titleMap_Copied ==
  [k \in {"recommendation", "risk", "achievement", "ai", "teamPlanning", "healthPerformance"} |->
     CASE k = "recommendation"    -> "Executive Summary: Insights and Recommendations"
       [] k = "risk"              -> "Executive Summary: Risks and Mitigations"
       [] k = "achievement"       -> "Executive Summary: Highlights and Opportunities"
       [] k = "ai"                -> "Executive Summary: AI-Generated Insights"
       [] k = "teamPlanning"      -> "Executive Summary: Team Planning"
       [] k = "healthPerformance" -> "Executive Summary: Team Planning"]

titleMap ==
  [k \in {"recommendation", "risk", "achievement", "ai", "teamPlanning", "healthPerformance"} |->
     CASE k = "recommendation"    -> "Executive Summary: Insights and Recommendations"
       [] k = "risk"              -> "Executive Summary: Risks and Mitigations"
       [] k = "achievement"       -> "Executive Summary: Highlights and Opportunities"
       [] k = "ai"                -> "Executive Summary: AI-Generated Insights"
       [] k = "teamPlanning"      -> "Executive Summary: Team Planning"
       [] k = "healthPerformance" -> "Executive Summary: Health Performance"]

expectedKeys ==
  <<"recommendation", "risk", "achievement", "ai", "teamPlanning", "healthPerformance">>

\* TestPanel, Test 4: the headers it lists
expectedHeaders ==
  <<"1. Organizational Health and Team Performance Patterns",
    "2. Critical Risks and Opportunities Across All Teams",
    "3. Strategic Recommendations for Leadership and Management">>

\* ExecutiveSummary: the title of each <Section> it renders, in order
sectionTitles ==
  <<"1. Organizational Health and Team Performance Patterns",
    "2. Critical Risks and Opportunities Across All Teams",
    "3. Strategic Recommendations for Leadership and Management",
    "Next Steps and Final Recommendations">>

\* the buttons of the Dashboard that call onOpen, with the key each passes
DashboardButtons_RecommendationOpensAi == {
  [on |-> "AI Insights",        button |-> "tab",       key |-> "ai"],
  [on |-> "Recommendations",    button |-> "primary",   key |-> "ai"],
  [on |-> "Recommendations",    button |-> "secondary", key |-> "ai"],
  [on |-> "Risk Alert",         button |-> "primary",   key |-> "risk"],
  [on |-> "Risk Alert",         button |-> "secondary", key |-> "risk"],
  [on |-> "Achievement",        button |-> "primary",   key |-> "achievement"],
  [on |-> "Achievement",        button |-> "secondary", key |-> "achievement"],
  [on |-> "Team Planning",      button |-> "primary",   key |-> "teamPlanning"],
  [on |-> "Team Planning",      button |-> "secondary", key |-> "teamPlanning"],
  [on |-> "Health Performance", button |-> "primary",   key |-> "healthPerformance"],
  [on |-> "Health Performance", button |-> "secondary", key |-> "healthPerformance"] }

DashboardButtons == {
  [on |-> "AI Insights",        button |-> "tab",       key |-> "ai"],
  [on |-> "Recommendations",    button |-> "primary",   key |-> "recommendation"],
  [on |-> "Recommendations",    button |-> "secondary", key |-> "ai"],
  [on |-> "Risk Alert",         button |-> "primary",   key |-> "risk"],
  [on |-> "Risk Alert",         button |-> "secondary", key |-> "risk"],
  [on |-> "Achievement",        button |-> "primary",   key |-> "achievement"],
  [on |-> "Achievement",        button |-> "secondary", key |-> "achievement"],
  [on |-> "Team Planning",      button |-> "primary",   key |-> "teamPlanning"],
  [on |-> "Team Planning",      button |-> "secondary", key |-> "teamPlanning"],
  [on |-> "Health Performance", button |-> "primary",   key |-> "healthPerformance"],
  [on |-> "Health Performance", button |-> "secondary", key |-> "healthPerformance"] }

\* ------------------------------------------------------------------------
\* Text of the chat.  A text is a sequence of pieces; what the user types is
\* a sequence of single characters, a literal of the source is one piece.
\* ------------------------------------------------------------------------
Whitespace == {" ", "\t"}

\* the values the input takes: empty, blank, plain, padded, and a text that
\* contains another one
Texts == {<<>>, <<" ", "\t">>, <<"a">>, <<" ", "a", " ">>, <<"a", "b">>}

\* String.prototype.trim
RECURSIVE TrimStart(_)
TrimStart(s) ==
  IF s # <<>> /\ Head(s) \in Whitespace THEN TrimStart(Tail(s)) ELSE s

RECURSIVE TrimEnd(_)
TrimEnd(s) ==
  IF s # <<>> /\ s[Len(s)] \in Whitespace THEN TrimEnd(SubSeq(s, 1, Len(s) - 1)) ELSE s

\* the input taken as typed, without trim()
Trim_Raw(s) == s

Trim(s) == TrimEnd(TrimStart(s))

Greeting == <<"Hi, I'm Susan. How can I help with insights or summaries?">>

\* a canned reply that leaves the submitted text out
ReplyContent_NoText(text) == <<"Here's a draft. (demo)">>

\* `Here's a draft based on: "${text}". (demo)`
ReplyContent(text) == <<"Here's a draft based on: \"">> \o text \o <<"\". (demo)">>

ReplyDelay == 600
CloseDelay == 180

Delay(kind) == IF kind = "reply" THEN ReplyDelay ELSE CloseDelay

\* ------------------------------------------------------------------------
\* State
\* ------------------------------------------------------------------------
VARIABLES
  ratio,      \* the literal passed to calcDefinedPct: num / 10^digits
  pctDone,    \* calcDefinedPct has returned
  pct,        \* the value it returned: definedPct of AgileDashboard
  donutData,  \* AgileDashboard: the memoized slices of the donut
  project,    \* AgileDashboard: the value of the Project filter
  projectOpen,\* FilterButton "Project": open
  personOpen, \* FilterButton "Person": open
  view,       \* App: "dashboard" or "insights"
  selected,   \* App: an InsightKey or null
  showTests,  \* App
  chatOpen,   \* App
  msg,        \* SusanChat: text of the input
  loading,    \* SusanChat
  history,    \* SusanChat: sequence of [role, content]
  appeared,   \* SusanChat
  timers,     \* pending setTimeout callbacks, in the order they were scheduled
  frames,     \* number of pending requestAnimationFrame callbacks
  lastOp      \* the handler or callback that ran last

filterVars == <<project, projectOpen, personOpen>>
agileVars == <<ratio, pctDone, pct, donutData, project, projectOpen, personOpen>>
appVars   == <<view, selected, showTests>>
chatVars  == <<chatOpen, msg, loading, history, appeared, timers, frames>>
vars      == <<ratio, pctDone, pct, donutData, project, projectOpen, personOpen, view, selected, showTests, chatOpen, msg, loading,
               history, appeared, timers, frames, lastOp>>

Ratios == [num : (-MaxNeg)..MaxNum, digits : 1..MaxDigits]

\* the filters of the Agile dashboard
person == "Ketan Desai"
PersonOptions == <<"Ketan Desai", "Anita", "Rahul", "Priya">>
ProjectOptions == <<"All Projects", "Design Platform", "Delivery Support", "Orange Squad",
                    "Solution", "Support Team", "System Team">>

FilterOptions(label) == IF label = "Person" THEN PersonOptions ELSE ProjectOptions

InitFilter ==
  /\ project = "All Projects"
  /\ projectOpen = FALSE
  /\ personOpen = FALSE

InitAgile ==
  /\ ratio = kpis.definedRatio
  /\ pctDone = FALSE
  /\ pct = 0
  /\ donutData = <<>>
  /\ InitFilter

InitApp ==
  /\ view = "dashboard"
  /\ selected = null
  /\ showTests = FALSE
  /\ chatOpen = FALSE
  /\ msg = <<>>
  /\ loading = FALSE
  /\ history = <<[role |-> "assistant", content |-> Greeting]>>
  /\ appeared = FALSE
  /\ timers = <<>>
  /\ frames = 0
  /\ lastOp = "init"

Init == InitAgile /\ InitApp

\* ------------------------------------------------------------------------
\* The percentage helper applied to a literal
\* ------------------------------------------------------------------------
InitPct ==
  /\ ratio \in Ratios
  /\ pctDone = FALSE
  /\ pct = 0
  /\ donutData = <<>>
  /\ InitFilter
  /\ InitApp

\* slices computed from the ratio without the clamp
donutDataFactory_Unclamped(r) ==
  <<[name |-> "Defined",   value |-> MathRound(Times100(r))],
    [name |-> "Undefined", value |-> 100 - MathRound(Times100(r))]>>

\* the function given to useMemo for donutData, for r = kpis.definedRatio
donutDataFactory(r) ==
  <<[name |-> "Defined",   value |-> calcDefinedPct(r)],
    [name |-> "Undefined", value |-> 100 - calcDefinedPct(r)]>>

CallCalcDefinedPct ==
  /\ ~pctDone
  /\ pct' = calcDefinedPct(ToNumber(ratio.num, Pow10(ratio.digits)))
  /\ donutData' = donutDataFactory(ToNumber(ratio.num, Pow10(ratio.digits)))
  /\ pctDone' = TRUE
  /\ lastOp' = "calcDefinedPct"
  /\ UNCHANGED <<ratio, filterVars, appVars, chatVars>>

NextPct == CallCalcDefinedPct

SpecPct == InitPct /\ [][NextPct]_vars

\* ------------------------------------------------------------------------
\* AgileDashboard: rendered once definedPct and donutData have been computed,
\* then its two FilterButtons
\* ------------------------------------------------------------------------
\* the button of a FilterButton: setOpen((v) => !v)
ToggleFilter(label) ==
  /\ pctDone
  /\ IF label = "Person"
     THEN personOpen' = ~personOpen /\ UNCHANGED projectOpen
     ELSE projectOpen' = ~projectOpen /\ UNCHANGED personOpen
  /\ lastOp' = "toggleFilter"
  /\ UNCHANGED <<ratio, pctDone, pct, donutData, project, appVars, chatVars>>

\* an option that selects and leaves its dropdown open
SelectOption_StaysOpen(label, opt) ==
  /\ pctDone
  /\ IF label = "Person"
     THEN personOpen /\ UNCHANGED project
     ELSE projectOpen /\ project' = opt
  /\ lastOp' = opt
  /\ UNCHANGED <<ratio, pctDone, pct, donutData, projectOpen, personOpen, appVars, chatVars>>

\* an option of the open dropdown: onSelect(opt); setOpen(false).  onSelect is
\* () => {} for Person and (v) => setProject(v) for Project
SelectOption(label, opt) ==
  /\ pctDone
  /\ IF label = "Person"
     THEN personOpen /\ personOpen' = FALSE /\ UNCHANGED <<project, projectOpen>>
     ELSE projectOpen /\ project' = opt /\ projectOpen' = FALSE /\ UNCHANGED personOpen
  /\ lastOp' = opt
  /\ UNCHANGED <<ratio, pctDone, pct, donutData, appVars, chatVars>>

NextAgile ==
  \/ CallCalcDefinedPct
  \/ \E label \in {"Person", "Project"} : ToggleFilter(label)
  \/ \E label \in {"Person", "Project"} :
       \E n \in 1..Len(FilterOptions(label)) : SelectOption(label, FilterOptions(label)[n])

SpecAgile == Init /\ [][NextAgile]_vars

\* ------------------------------------------------------------------------
\* App
\* ------------------------------------------------------------------------
\* the title ExecutiveSummary shows for the selected key
DisplayedTitle(sel) == IF sel # null THEN titleMap[sel] ELSE titleMap["ai"]

\* openInsights that switches the view and forgets the key
openInsights_ViewOnly(key) ==
  /\ selected' = selected
  /\ view' = "insights"

\* openInsights(key), called by a button of the Dashboard
openInsights(key) ==
  /\ selected' = key
  /\ view' = "insights"

ClickDashboardButton(b) ==
  /\ view = "dashboard"
  /\ openInsights(b.key)
  /\ lastOp' = "openInsights"
  /\ UNCHANGED <<showTests, chatVars, agileVars>>

\* onBack that drops the selection and stays in the detail view
ClickBack_ClearsSelection ==
  /\ view = "insights"
  /\ selected' = null
  /\ lastOp' = "back"
  /\ UNCHANGED <<view, showTests, chatVars, agileVars>>

\* onBack of ExecutiveSummary
ClickBack ==
  /\ view = "insights"
  /\ view' = "dashboard"
  /\ lastOp' = "back"
  /\ UNCHANGED <<selected, showTests, chatVars, agileVars>>

\* onToggleTests, rendered in both views
ClickRunUITests ==
  /\ showTests' = ~showTests
  /\ lastOp' = "toggleTests"
  /\ UNCHANGED <<view, selected, chatVars, agileVars>>

\* ------------------------------------------------------------------------
\* SusanChat
\* ------------------------------------------------------------------------
UserCount(h) == Cardinality({i \in 1..Len(h) : h[i].role = "user"})
PendingCount(kind) == Cardinality({i \in 1..Len(timers) : timers[i].kind = kind})

\* the "Ask Susan" button: onOpen, then the effect on [open] requests a frame
ClickAskSusan ==
  /\ ~chatOpen
  /\ frames < MaxFrames
  /\ chatOpen' = TRUE
  /\ frames' = frames + 1
  /\ lastOp' = "onOpen"
  /\ UNCHANGED <<msg, loading, history, appeared, timers, appVars, agileVars>>

\* the callback passed to requestAnimationFrame
AnimationFrame ==
  /\ frames > 0
  /\ frames' = frames - 1
  /\ appeared' = TRUE
  /\ lastOp' = "frame"
  /\ UNCHANGED <<chatOpen, msg, loading, history, timers, appVars, agileVars>>

\* onChange of the input
TypeInput(s) ==
  /\ chatOpen
  /\ msg' = s
  /\ lastOp' = "type"
  /\ UNCHANGED <<chatOpen, loading, history, appeared, timers, frames, appVars, agileVars>>

\* send() that clears the timeout of the previous submission before it sets
\* its own
send_ReplacesTimer ==
  LET text == Trim(msg)
  IN  IF text = <<>>
      THEN UNCHANGED <<msg, history, loading, timers>>
      ELSE /\ UserCount(history) < MaxSends
           /\ msg' = <<>>
           /\ history' = Append(history, [role |-> "user", content |-> text])
           /\ loading' = TRUE
           /\ timers' = Append(SelectSeq(timers, LAMBDA t : t.kind # "reply"),
                               [kind |-> "reply", text |-> text])

\* send() with an exchange in flight refused: if (!text || loading) return
send_OneInFlight ==
  LET text == Trim(msg)
  IN  IF text = <<>> \/ loading
      THEN UNCHANGED <<msg, history, loading, timers>>
      ELSE /\ UserCount(history) < MaxSends
           /\ msg' = <<>>
           /\ history' = Append(history, [role |-> "user", content |-> text])
           /\ loading' = TRUE
           /\ timers' = Append(timers, [kind |-> "reply", text |-> text])

\* send()
send ==
  LET text == Trim(msg)
  IN  IF text = <<>>
      THEN UNCHANGED <<msg, history, loading, timers>>
      ELSE /\ UserCount(history) < MaxSends
           /\ msg' = <<>>
           /\ history' = Append(history, [role |-> "user", content |-> text])
           /\ loading' = TRUE
           /\ timers' = Append(timers, [kind |-> "reply", text |-> text])

\* the Send button, disabled while loading
ClickSend ==
  /\ chatOpen
  /\ ~loading
  /\ send
  /\ lastOp' = "send"
  /\ UNCHANGED <<chatOpen, appeared, frames, appVars, agileVars>>

\* Enter in the input
KeyEnter ==
  /\ chatOpen
  /\ send
  /\ lastOp' = "send"
  /\ UNCHANGED <<chatOpen, appeared, frames, appVars, agileVars>>

\* handleClose that clears the pending replies
handleClose_CancelsReplies ==
  /\ appeared' = FALSE
  /\ timers' = Append(SelectSeq(timers, LAMBDA t : t.kind # "reply"),
                      [kind |-> "close", text |-> <<>>])

\* handleClose
handleClose ==
  /\ appeared' = FALSE
  /\ timers' = Append(timers, [kind |-> "close", text |-> <<>>])

ClickClose ==
  /\ chatOpen
  /\ PendingCount("close") < MaxCloses
  /\ handleClose
  /\ lastOp' = "handleClose"
  /\ UNCHANGED <<chatOpen, msg, loading, history, frames, appVars, agileVars>>

\* timeouts that run in any order
CanFire_AnyOrder(i) == i \in 1..Len(timers)

\* a pending timeout may run when no timeout scheduled before it has a delay
\* that is not longer than its own
CanFire(i) == \A j \in 1..(i - 1) : Delay(timers[j].kind) > Delay(timers[i].kind)

RemoveAt(q, i) == SubSeq(q, 1, i - 1) \o SubSeq(q, i + 1, Len(q))

\* the callback writing [...history, reply] with the history of the render
\* that called send, which lacks the user message
ReplyTimeout_StaleHistory(i) ==
  /\ timers[i].kind = "reply"
  /\ CanFire(i)
  /\ history' = Append(SubSeq(history, 1, Len(history) - 1),
                       [role |-> "assistant", content |-> ReplyContent(timers[i].text)])
  /\ loading' = FALSE
  /\ timers' = RemoveAt(timers, i)
  /\ lastOp' = "reply"
  /\ UNCHANGED <<chatOpen, msg, appeared, frames, appVars, agileVars>>

\* the callback returning early when the panel is closed: if (!open) return
ReplyTimeout_IfOpen(i) ==
  /\ timers[i].kind = "reply"
  /\ CanFire(i)
  /\ history' = IF chatOpen
                THEN Append(history, [role |-> "assistant", content |-> ReplyContent(timers[i].text)])
                ELSE history
  /\ loading' = IF chatOpen THEN FALSE ELSE loading
  /\ timers' = RemoveAt(timers, i)
  /\ lastOp' = "reply"
  /\ UNCHANGED <<chatOpen, msg, appeared, frames, appVars, agileVars>>

\* the callback quoting the input as it is when the timer runs
ReplyTimeout_ReadsMsg(i) ==
  /\ timers[i].kind = "reply"
  /\ CanFire(i)
  /\ history' = Append(history, [role |-> "assistant", content |-> ReplyContent(Trim(msg))])
  /\ loading' = FALSE
  /\ timers' = RemoveAt(timers, i)
  /\ lastOp' = "reply"
  /\ UNCHANGED <<chatOpen, msg, appeared, frames, appVars, agileVars>>

\* the callback of setTimeout(..., 600) in send
ReplyTimeout(i) ==
  /\ timers[i].kind = "reply"
  /\ CanFire(i)
  /\ history' = Append(history, [role |-> "assistant", content |-> ReplyContent(timers[i].text)])
  /\ loading' = FALSE
  /\ timers' = RemoveAt(timers, i)
  /\ lastOp' = "reply"
  /\ UNCHANGED <<chatOpen, msg, appeared, frames, appVars, agileVars>>

\* onClose that also empties the input of the panel it closes
CloseTimeout_ClearsInput(i) ==
  /\ timers[i].kind = "close"
  /\ CanFire(i)
  /\ chatOpen' = FALSE
  /\ appeared' = IF chatOpen THEN FALSE ELSE appeared
  /\ msg' = <<>>
  /\ timers' = RemoveAt(timers, i)
  /\ lastOp' = "onClose"
  /\ UNCHANGED <<loading, history, frames, appVars, agileVars>>

\* setTimeout(onClose, 180): onClose, then the effect on [open] when open changed
CloseTimeout(i) ==
  /\ timers[i].kind = "close"
  /\ CanFire(i)
  /\ chatOpen' = FALSE
  /\ appeared' = IF chatOpen THEN FALSE ELSE appeared
  /\ timers' = RemoveAt(timers, i)
  /\ lastOp' = "onClose"
  /\ UNCHANGED <<msg, loading, history, frames, appVars, agileVars>>

Next ==
  \/ \E b \in DashboardButtons : ClickDashboardButton(b)
  \/ ClickBack
  \/ ClickRunUITests
  \/ ClickAskSusan
  \/ AnimationFrame
  \/ \E s \in Texts : TypeInput(s)
  \/ ClickSend
  \/ KeyEnter
  \/ ClickClose
  \/ \E i \in 1..Len(timers) : ReplyTimeout(i)
  \/ \E i \in 1..Len(timers) : CloseTimeout(i)

Spec == Init /\ [][Next]_vars

\* SusanChat alone: the App stays on the dashboard
NextChat ==
  \/ ClickAskSusan
  \/ AnimationFrame
  \/ \E s \in Texts : TypeInput(s)
  \/ ClickSend
  \/ KeyEnter
  \/ ClickClose
  \/ \E i \in 1..Len(timers) : ReplyTimeout(i)
  \/ \E i \in 1..Len(timers) : CloseTimeout(i)

SpecChat == Init /\ [][NextChat]_vars

\* the event loop runs every callback that is due: a pending timeout that may
\* run and a requested animation frame are not postponed for ever
SpecChatFair ==
  /\ SpecChat
  /\ WF_vars(\E i \in 1..Len(timers) : ReplyTimeout(i))
  /\ WF_vars(\E i \in 1..Len(timers) : CloseTimeout(i))
  /\ WF_vars(AnimationFrame)

\* the App without the chat exchange: views, test panel, opening and closing
\* the chat, typing
NextApp ==
  \/ \E b \in DashboardButtons : ClickDashboardButton(b)
  \/ ClickBack
  \/ ClickRunUITests
  \/ ClickAskSusan
  \/ AnimationFrame
  \/ \E s \in Texts : TypeInput(s)
  \/ ClickClose
  \/ \E i \in 1..Len(timers) : CloseTimeout(i)

SpecApp == Init /\ [][NextApp]_vars

\* ------------------------------------------------------------------------
\* Properties of calcDefinedPct (checked under SpecPct)
\* ------------------------------------------------------------------------
\* C1: for every ratio, negative values and values above 1 included,
\* calcDefinedPct returns an integer r with 0 <= r <= 100.
C1_ResultInRange == pctDone => pct \in 0..100

C1_Witness == pctDone /\ ratio.num < 0 /\ pct = 0

\* the reference computation on the literal num / 10^digits, in exact rational
\* arithmetic: clamp to [0,1], times 100, nearest integer with halves up
RefPct(r) ==
  LET den == Pow10(r.digits)
      c   == IF r.num < 0 THEN 0 ELSE IF r.num > den THEN den ELSE r.num
  IN  (200 * c + den) \div (2 * den)

\* C2: calcDefinedPct(x) equals the reference computation (clamp to [0,1],
\* multiply by 100, round to the nearest integer with exact halves rounded
\* up) for every input ratio.
C2_EqualsReference == pctDone => pct = RefPct(ratio)

\* C3: out-of-range inputs saturate: every ratio >= 1 gives 100 and every
\* ratio <= 0 gives 0; in particular 0 -> 0, 1 -> 100, 1.2 -> 100, -0.2 -> 0.
C3_Saturates ==
  pctDone =>
    /\ (ratio.num >= Pow10(ratio.digits) => pct = 100)
    /\ (ratio.num <= 0 => pct = 0)
    /\ (ratio = [num |-> 0, digits |-> 1] => pct = 0)
    /\ (ratio = [num |-> 10, digits |-> 1] => pct = 100)
    /\ (ratio = [num |-> 12, digits |-> 1] => pct = 100)
    /\ (ratio = [num |-> -2, digits |-> 1] => pct = 0)

C3_Witness == pctDone /\ ratio = [num |-> 12, digits |-> 1] /\ pct = 100

\* C4: in-range inputs are rounded to the nearest whole percent with ties going
\* up: 0.67 -> 67, 0.345 -> 35 and 0.995 -> 100 (the tie at 99.5 rounds up to
\* the upper bound 100 and never exceeds it).
C4_RoundsHalfUp ==
  pctDone =>
    /\ (ratio = [num |-> 67, digits |-> 2] => pct = 67)
    /\ (ratio = [num |-> 345, digits |-> 3] => pct = 35)
    /\ (ratio = [num |-> 995, digits |-> 3] => pct = 100)
    /\ pct <= 100

C4_Witness == pctDone /\ ratio = [num |-> 995, digits |-> 3] /\ pct = 100

\* ------------------------------------------------------------------------
\* Properties of SusanChat (checked under SpecChat)
\* ------------------------------------------------------------------------
IsBlank(s) == \A i \in 1..Len(s) : s[i] \in Whitespace

\* t is s without its leading and trailing whitespace
IsTrimOf(t, s) ==
  \E i \in 0..Len(s) : \E j \in 0..(Len(s) - i) :
    /\ t = SubSeq(s, i + 1, Len(s) - j)
    /\ IsBlank(SubSeq(s, 1, i))
    /\ IsBlank(SubSeq(s, Len(s) - j + 1, Len(s)))
    /\ t # <<>> => (t[1] \notin Whitespace /\ t[Len(t)] \notin Whitespace)

\* t occurs in c as a contiguous run of pieces
Embeds(c, t) == \E i \in 0..(Len(c) - Len(t)) : SubSeq(c, i + 1, i + Len(t)) = t

IsPrefix(p, q) == Len(p) <= Len(q) /\ SubSeq(q, 1, Len(p)) = p

PendingReplies(q) == Cardinality({i \in 1..Len(q) : q[i].kind = "reply"})

\* C5: submitting an input that is empty or only whitespace is silently
\* ignored: the history is unchanged, no reply is scheduled, loading is
\* unchanged and the input text is left as it was.
C5_BlankSubmitIgnored ==
  [][ (lastOp' = "send" /\ IsBlank(msg)) => UNCHANGED <<history, timers, loading, msg>> ]_vars

C5_Witness == lastOp = "send" /\ msg # <<>> /\ IsBlank(msg) /\ Len(history) > 1

\* C6: submitting an input whose trimmed text t is non-empty appends exactly
\* one user entry with content t to the end of the history in the same step
\* and schedules one reply for t; when the delay elapses exactly one assistant
\* entry whose content embeds t verbatim is appended for it; no other step adds
\* an entry or a pending reply.
C6_SubmitThenReply ==
  [][ /\ (lastOp' = "send" /\ ~IsBlank(msg)) =>
           \E t \in Texts :
             /\ IsTrimOf(t, msg)
             /\ history' = Append(history, [role |-> "user", content |-> t])
             /\ timers' = Append(timers, [kind |-> "reply", text |-> t])
      /\ (lastOp' = "reply") =>
           \E i \in 1..Len(timers) :
             /\ timers[i].kind = "reply"
             /\ timers' = RemoveAt(timers, i)
             /\ Len(history') = Len(history) + 1
             /\ IsPrefix(history, history')
             /\ history'[Len(history')].role = "assistant"
             /\ Embeds(history'[Len(history')].content, timers[i].text)
      /\ (lastOp' \notin {"send", "reply"}) =>
           /\ history' = history
           /\ PendingReplies(timers') = PendingReplies(timers)
    ]_vars

C6_Witness ==
  /\ lastOp = "reply"
  /\ Len(history) = 3
  /\ history[2] = [role |-> "user", content |-> <<"a">>]
  /\ history[3].role = "assistant"
  /\ Embeds(history[3].content, <<"a">>)
  /\ PendingReplies(timers) = 0

\* C7: the history is append-only: in every step the previous history is a
\* prefix of the new one.
C7_AppendOnly == [][ IsPrefix(history, history') ]_vars

C7_Witness == Len(history) >= 4 /\ history[Len(history)].role = "assistant"

\* C10: a non-empty submission made while an earlier reply is pending is
\* accepted: its user message is appended in that step and its own reply is
\* scheduled, so that two replies are pending at once.
C10_NoMutualExclusion ==
  [][ (lastOp' = "send" /\ ~IsBlank(msg) /\ PendingReplies(timers) >= 1) =>
        /\ Len(history') = Len(history) + 1
        /\ history'[Len(history')].role = "user"
        /\ PendingReplies(timers') = PendingReplies(timers) + 1 ]_vars

C10_Witness == PendingReplies(timers) >= 2 /\ lastOp = "send" /\ loading

\* ------------------------------------------------------------------------
\* Properties of the literal tables
\* ------------------------------------------------------------------------
Range(f) == {f[x] : x \in DOMAIN f}

\* C8: the detail-view keys are exactly the six keys: InsightKey, the keys of
\* titleMap and expectedKeys agree, every title is non-empty, the titles are
\* pairwise distinct (and the selected key always has a title).
C8_DetailKeys ==
  /\ InsightKey = {"recommendation", "risk", "achievement", "ai", "teamPlanning", "healthPerformance"}
  /\ DOMAIN titleMap = InsightKey
  /\ Range(expectedKeys) = InsightKey
  /\ \A k \in DOMAIN titleMap : titleMap[k] # ""
  /\ \A k1, k2 \in DOMAIN titleMap : k1 # k2 => titleMap[k1] # titleMap[k2]
  /\ selected # null => selected \in DOMAIN titleMap

C8_Witness == view = "insights" /\ selected = "healthPerformance" /\ showTests

StatusTags == {"Red", "Yellow", "Green"}

\* C9: every record of the teams table has its current status and its previous
\* status in {Red, Yellow, Green} (stated of the states in which the module of
\* the dashboard has run its helper, that is, has been loaded).
C9_StatusTags ==
  pctDone =>
    \A i \in 1..Len(teams) : teams[i].status \in StatusTags /\ teams[i].prev \in StatusTags

\* ------------------------------------------------------------------------
\* Properties of the pending callbacks (checked under SpecChat)
\* ------------------------------------------------------------------------
\* the texts of the pending replies, in the order they were scheduled
RECURSIVE ReplyTexts(_)
ReplyTexts(q) ==
  IF q = <<>> THEN <<>>
  ELSE IF Head(q).kind = "reply" THEN <<Head(q).text>> \o ReplyTexts(Tail(q))
  ELSE ReplyTexts(Tail(q))

\* C11: the reply is a timer that nothing cancels: clicking Close and the
\* delayed onClose leave the pending replies as they are, and a reply that
\* comes while the panel is closed still appends its assistant entry and
\* resets loading, the panel staying closed.
C11_ReplyAfterClose ==
  [][ /\ (lastOp' \in {"handleClose", "onClose"}) =>
           /\ ReplyTexts(timers') = ReplyTexts(timers)
           /\ history' = history
           /\ loading' = loading
      /\ (lastOp' = "reply" /\ ~chatOpen) =>
           /\ Len(history') = Len(history) + 1
           /\ IsPrefix(history, history')
           /\ history'[Len(history')].role = "assistant"
           /\ ~loading'
           /\ ~chatOpen'
           /\ Len(ReplyTexts(timers')) = Len(ReplyTexts(timers)) - 1
    ]_vars

C11_Witness ==
  /\ lastOp = "reply"
  /\ ~chatOpen
  /\ ~loading
  /\ Len(history) = 3
  /\ history[3].role = "assistant"

\* the assistant entries after the greeting
ReplyCount(h) == Cardinality({i \in 2..Len(h) : h[i].role = "assistant"})

Quiescent == PendingReplies(timers) = 0 /\ ReplyCount(history) = UserCount(history)

\* C12: no message is dropped: with the timer callbacks run fairly, the k-th
\* accepted submission is eventually followed by a k-th assistant reply, and
\* the chat comes back again and again to a state with no reply pending in
\* which the replies after the greeting are as many as the user messages.
C12_EveryMessageAnswered ==
  /\ \A k \in 1..MaxSends : (UserCount(history) >= k) ~> (ReplyCount(history) >= k)
  /\ []<>Quiescent

C12_Witness ==
  /\ lastOp = "reply"
  /\ Quiescent
  /\ UserCount(history) = 2
  /\ history[2].role = "user" /\ history[3].role = "user"

\* the pieces of a reply between its two literal pieces
Quoted(c) == SubSeq(c, 2, Len(c) - 1)

\* C13: the reply quotes the text as it was submitted, not the state when the
\* timer runs: typing and other callbacks leave the texts of the pending
\* replies alone, a later submission only adds its own, and the reply that
\* runs quotes exactly the text of its own timer.
C13_ReplyQuotesSubmittedText ==
  [][ /\ (lastOp' = "reply") =>
           \E i \in 1..Len(timers) :
             /\ timers[i].kind = "reply"
             /\ timers' = RemoveAt(timers, i)
             /\ Len(history') = Len(history) + 1
             /\ Len(history'[Len(history')].content) = Len(timers[i].text) + 2
             /\ Quoted(history'[Len(history')].content) = timers[i].text
      /\ (lastOp' = "send") => IsPrefix(ReplyTexts(timers), ReplyTexts(timers'))
      /\ (lastOp' \notin {"send", "reply"}) => ReplyTexts(timers') = ReplyTexts(timers)
    ]_vars

C13_Witness ==
  /\ lastOp = "reply"
  /\ Len(history) = 4
  /\ history[2] = [role |-> "user", content |-> <<"a">>]
  /\ history[3] = [role |-> "user", content |-> <<"a", "b">>]
  /\ history[4].role = "assistant"
  /\ Quoted(history[4].content) = <<"a">>
  /\ msg = <<" ", "a", " ">>

\* ------------------------------------------------------------------------
\* Properties of the App (checked under Spec)
\* ------------------------------------------------------------------------
\* C14: the elements of the UI state are independent: toggling the test panel
\* changes only showTests; opening and closing the chat change only its open
\* and animation state (with their pending callbacks) and leave view, selected,
\* showTests, history, input and loading as they are; Back changes only view;
\* typing changes only the input.
C14_IndependentState ==
  [][ /\ (lastOp' = "toggleTests") =>
           /\ showTests' = ~showTests
           /\ UNCHANGED <<view, selected, chatVars>>
      /\ (lastOp' \in {"onOpen", "frame", "handleClose", "onClose"}) =>
           /\ UNCHANGED <<view, selected, showTests, history, msg, loading>>
           /\ ReplyTexts(timers') = ReplyTexts(timers)
      /\ (lastOp' = "back") =>
           /\ view' = "dashboard"
           /\ UNCHANGED <<selected, showTests, chatVars>>
      /\ (lastOp' = "type") =>
           UNCHANGED <<view, selected, showTests, chatOpen, loading, history, appeared, timers, frames>>
    ]_vars

C14_Witness ==
  /\ lastOp = "onOpen"
  /\ chatOpen
  /\ Len(history) >= 3
  /\ msg = <<"a", "b">>
  /\ view = "insights"
  /\ showTests

\* C15: the view switcher has two views: it starts in the dashboard view; an
\* open-insight action with key k moves from the dashboard to the detail view
\* with selected = k and the title titleMap[k]; Back moves to the dashboard;
\* no other action changes the view.
C15_ViewSwitcher ==
  /\ view = "dashboard"
  /\ [][ /\ view' \in {"dashboard", "insights"}
         /\ \A b \in DashboardButtons :
              ClickDashboardButton(b) =>
                /\ view = "dashboard"
                /\ view' = "insights"
                /\ selected' = b.key
                /\ DisplayedTitle(selected') = titleMap[b.key]
         /\ (lastOp' = "openInsights") =>
              /\ view' = "insights"
              /\ \E b \in DashboardButtons : selected' = b.key
         /\ (lastOp' = "back") => (view = "insights" /\ view' = "dashboard")
         /\ (lastOp' \notin {"openInsights", "back"}) => view' = view
       ]_vars

C15_Witness ==
  /\ lastOp = "openInsights"
  /\ view = "insights"
  /\ selected = "risk"
  /\ DisplayedTitle(selected) = "Executive Summary: Risks and Mitigations"
  /\ Len(history) >= 2

\* ------------------------------------------------------------------------
\* C16: the Project filter starts at "All Projects" and is always one of the
\* seven options; choosing an option of the open Project dropdown makes it the
\* value (the last choice wins) and closes that dropdown; nothing but a choice
\* of a Project option changes the value.
\* ------------------------------------------------------------------------
C16_ProjectLastWriteWins ==
  /\ project = "All Projects"
  /\ Len(ProjectOptions) = 7
  /\ [][ /\ project' \in Range(ProjectOptions)
         /\ \A o \in Range(ProjectOptions) :
              lastOp' = o => projectOpen /\ project' = o /\ ~projectOpen'
         /\ lastOp' \notin Range(ProjectOptions) => project' = project ]_vars

C16_Witness ==
  /\ project = "Solution"
  /\ lastOp = "Solution"
  /\ ~projectOpen

\* ------------------------------------------------------------------------
\* C17: whenever the executive summary is shown, the sequence of the Section
\* titles it renders is the list of three headers of the test panel.
\* ------------------------------------------------------------------------
C17_ThreeSectionHeaders ==
  view = "insights" => sectionTitles = expectedHeaders

\* ------------------------------------------------------------------------
\* C18: loading is TRUE exactly when at least one reply is still pending.
\* ------------------------------------------------------------------------
C18_LoadingIffPending ==
  loading <=> PendingReplies(timers) > 0

\* the entries of a role in a history, greeting left out, as positions and as
\* the texts they carry
Positions(h, role) == {i \in 2..Len(h) : h[i].role = role}

NthPosition(h, role, k) ==
  CHOOSE i \in Positions(h, role) : Cardinality({j \in Positions(h, role) : j <= i}) = k

SubmittedTexts(h) ==
  [k \in 1..Cardinality(Positions(h, "user")) |-> h[NthPosition(h, "user", k)].content]

AnsweredTexts(h) ==
  [k \in 1..Cardinality(Positions(h, "assistant")) |->
     Quoted(h[NthPosition(h, "assistant", k)].content)]

\* ------------------------------------------------------------------------
\* C19: replies come in the order of the submissions: the texts quoted by the
\* assistant replies, in the order of the history, are the first of the
\* submitted texts in their order, and the k-th reply stands after the k-th
\* user message.
\* ------------------------------------------------------------------------
C19_RepliesInSubmissionOrder ==
  /\ IsPrefix(AnsweredTexts(history), SubmittedTexts(history))
  /\ \A k \in 1..Cardinality(Positions(history, "assistant")) :
       NthPosition(history, "user", k) < NthPosition(history, "assistant", k)

C19_Witness ==
  /\ Len(history) = 5
  /\ history[2].role = "user" /\ history[3].role = "user"
  /\ history[4].role = "assistant" /\ history[5].role = "assistant"
  /\ history[2].content # history[3].content
  /\ Quoted(history[5].content) = history[3].content

\* ------------------------------------------------------------------------
\* C20: the history always starts with the greeting of the assistant, and
\* the user entries are as many as the assistant entries after the greeting
\* plus the replies still pending.
\* ------------------------------------------------------------------------
C20_MessageAccounting ==
  /\ Len(history) >= 1
  /\ history[1] = [role |-> "assistant", content |-> Greeting]
  /\ Cardinality(Positions(history, "user")) =
       Cardinality(Positions(history, "assistant")) + Len(ReplyTexts(timers))

C20_Witness ==
  /\ Cardinality(Positions(history, "user")) = 2
  /\ Cardinality(Positions(history, "assistant")) = 1
  /\ Len(ReplyTexts(timers)) = 1
  /\ PendingCount("close") > 0

\* ------------------------------------------------------------------------
\* C21: whenever the detail view is shown a key is selected, so the title
\* shown is the title of the selected key and never the fallback for null.
\* ------------------------------------------------------------------------
C21_DetailHasSelection ==
  view = "insights" => selected \in InsightKey /\ selected # null

C21_Witness ==
  /\ view = "insights"
  /\ selected = "risk"
  /\ lastOp = "toggleTests"

\* ------------------------------------------------------------------------
\* C22: a panel that was just opened by Ask Susan stays open until Close is
\* clicked: the step that follows the opening, unless it is a click on
\* Close, leaves the panel open.
\* ------------------------------------------------------------------------
C22_ReopenedStaysOpen ==
  [][ (chatOpen /\ lastOp = "onOpen" /\ lastOp' # "handleClose") => chatOpen' ]_vars

\* ------------------------------------------------------------------------
\* C23: every key of the detail view can be opened from the dashboard: in
\* every state of the dashboard view, for each of the six keys, a tab or a
\* button of an insight card can be clicked and its click shows the detail
\* view with exactly that key selected.
\* ------------------------------------------------------------------------
C23_EveryKeyReachable ==
  /\ Cardinality(InsightKey) = 6
  /\ view = "dashboard" =>
       \A k \in InsightKey :
         \E b \in DashboardButtons :
           /\ b.button \in {"tab", "primary", "secondary"}
           /\ ENABLED (ClickDashboardButton(b) /\ view' = "insights" /\ selected' = k)

C23_Witness ==
  /\ view = "insights"
  /\ selected = "recommendation"
  /\ lastOp = "openInsights"

\* ------------------------------------------------------------------------
\* C24: on every insight card of the dashboard the primary action and the
\* secondary action open the detail view with the same key: whichever of the
\* two buttons of a card is clicked, the key selected is the same.
\* ------------------------------------------------------------------------
C24_CardActionsSameKey ==
  view = "dashboard" =>
    \A p, s \in DashboardButtons :
      (p.on = s.on /\ p.button = "primary" /\ s.button = "secondary") =>
        \A k \in InsightKey :
          ENABLED (ClickDashboardButton(p) /\ selected' = k)
            <=> ENABLED (ClickDashboardButton(s) /\ selected' = k)

\* ------------------------------------------------------------------------
\* C25: the donut agrees with the percentage helper: once the dashboard has
\* computed them, for any ratio, the Defined slice is the percentage shown in
\* the KPI card and in the centre of the donut, the Undefined slice is 100
\* minus it, both lie in 0..100 and they sum to exactly 100.
\* ------------------------------------------------------------------------
C25_DonutConsistent ==
  pctDone =>
    /\ Len(donutData) = 2
    /\ donutData[1].name = "Defined" /\ donutData[2].name = "Undefined"
    /\ donutData[1].value = pct
    /\ donutData[2].value = 100 - pct
    /\ donutData[1].value \in 0..100
    /\ donutData[2].value \in 0..100
    /\ donutData[1].value + donutData[2].value = 100

C25_Witness ==
  /\ pctDone
  /\ ratio.num = 145 /\ ratio.digits = 3
  /\ donutData[1].value = 14
  /\ donutData[2].value = 86

====
